---- MODULE Spec2Model ----
(***************************************************************************)
(* doris-webhook: an HTTP bridge that forwards POST /video events to the   *)
(* Stream Load endpoint of a Doris BE node.  src/main.go holds two builds  *)
(* of the program: the net/http build (lines 1-461) and the gin build      *)
(* (lines 463-933).  Both are modelled; cfg.build says which one runs.     *)
(***************************************************************************)
EXTENDS Integers, Sequences, FiniteSets, TLC

VARIABLES cfg, proc, clock, slots, last, uuids, sent, panics, clIn, clOut, rd

vars ==
    <<cfg, proc, clock, slots, last, uuids, sent, panics, clIn, clOut, rd>>

\* the state of the process and of its surroundings, of the load-call classifier
\* and of the redirect chain of one call
envVars == <<cfg, proc, clock>>
clVars == <<clIn, clOut>>

(***************************************************************************)
(* Bounds of the model.                                                    *)
(***************************************************************************)
MaxFields == 2      \* members of a JSON object in a load-engine response
MaxInFlight == 2    \* requests whose load call is in flight at once
MaxCalls == 3       \* outbound load calls in one behaviour
MaxPanics == 2      \* panics counted in one behaviour
PoolSize == 1       \* connections to the engine (MaxConnsPerHost, scaled down)
MaxChain == 12      \* consecutive redirects the engine answers one call with

(***************************************************************************)
(* JSON documents as encoding/json sees them.  syntax: "ok" is exactly one *)
(* valid value, "bad" is no valid value, "trailing" is one valid value     *)
(* followed by garbage.  An object is the sequence of its members in input *)
(* order; a member value is a string, a number or null.                    *)
(***************************************************************************)
Str(s) == [t |-> "string", v |-> s]
Num == [t |-> "number", v |-> "1"]
Null == [t |-> "null", v |-> ""]

Obj(syn, fs) == [syntax |-> syn, kind |-> "object", fields |-> fs]
NullDoc == [syntax |-> "ok", kind |-> "null", fields |-> <<>>]
ArrayDoc == [syntax |-> "ok", kind |-> "array", fields |-> <<>>]
BadDoc == [syntax |-> "bad", kind |-> "object", fields |-> <<>>]
EmptyDoc == [syntax |-> "bad", kind |-> "empty", fields |-> <<>>]

\* strings.EqualFold on the member names that occur in the model
Lower(k) ==
    CASE k \in {"Status", "status", "STATUS"} -> "status"
      [] k \in {"Message", "message"} -> "message"
      [] k \in {"ErrorURL", "errorurl"} -> "errorurl"
      [] k \in {"TxnId", "txnid"} -> "txnid"
      [] k \in {"project", "Project"} -> "project"
      [] k \in {"event", "Event"} -> "event"
      [] k \in {"userAgent", "useragent", "UserAgent"} -> "useragent"
      [] OTHER -> k

\* encoding/json: the struct field a member name selects: the exact name
\* first, a case-insensitive match otherwise, "" when there is none
FieldFor(schema, k) ==
    IF k \in DOMAIN schema THEN k
    ELSE IF \E n \in DOMAIN schema : Lower(n) = Lower(k)
         THEN CHOOSE n \in DOMAIN schema : Lower(n) = Lower(k)
         ELSE ""

\* one object member decoded into the struct: an unknown name is skipped,
\* null leaves the field alone, a value of the wrong JSON type leaves the
\* field alone and is remembered as the error
DecodeMember(acc, schema, m) ==
    LET f == FieldFor(schema, m[1])
        v == m[2]
    IN  IF f = "" \/ v.t = "null" THEN acc
        ELSE IF v.t = schema[f]
             THEN [acc EXCEPT !.obj = [@ EXCEPT ![f] = v.v]]
             ELSE [acc EXCEPT !.err = TRUE]

RECURSIVE DecodeMembers(_, _, _)
DecodeMembers(acc, schema, fs) ==
    IF fs = <<>> THEN acc
    ELSE DecodeMembers(DecodeMember(acc, schema, Head(fs)), schema, Tail(fs))

\* the first value of the input decoded into a struct that starts as zero
DecodeValue(doc, schema, zero) ==
    CASE doc.kind = "null" -> [err |-> FALSE, obj |-> zero]
      [] doc.kind = "object" ->
            DecodeMembers([err |-> FALSE, obj |-> zero], schema, doc.fields)
      [] OTHER -> [err |-> TRUE, obj |-> zero]

\* json.Valid
JsonValid(doc) == doc.syntax = "ok"

\* json.Unmarshal: the whole input must be one valid value
Unmarshal(doc, schema, zero) ==
    IF doc.syntax # "ok" THEN [err |-> TRUE, obj |-> zero]
    ELSE DecodeValue(doc, schema, zero)

\* json.NewDecoder(r).Decode: reads the first value only
DecoderDecode(doc, schema, zero) ==
    IF doc.syntax = "bad" THEN [err |-> TRUE, obj |-> zero]
    ELSE DecodeValue(doc, schema, zero)

(***************************************************************************)
(* Text built by fmt: a sequence of tokens.  Lit is literal text of a      *)
(* format string, Dec and Txt are interpolated values, Raw is a document   *)
(* interpolated as it was received.  The Chinese format strings of the     *)
(* source are written in English here.                                     *)
(***************************************************************************)
Lit(s) == [tok |-> "lit", s |-> s]
Txt(s) == [tok |-> "txt", s |-> s]
Dec(n) == [tok |-> "dec", n |-> n]
Raw(d) == [tok |-> "raw", d |-> d]

(***************************************************************************)
(* The load client.                                                        *)
(***************************************************************************)
StreamLoadSchema ==
    [Status |-> "string", Message |-> "string", ErrorURL |-> "string",
     TxnId |-> "number"]
StreamLoadZero ==
    [Status |-> "", Message |-> "", ErrorURL |-> "", TxnId |-> "0"]

StatusOK == 200

\* what client.Do and io.ReadAll give back for one call: transport "fail" is
\* an error of Do, "readfail" an error of reading the response body
TransportFail == [transport |-> "fail", code |-> 0, body |-> EmptyDoc]
ReadFail(c) == [transport |-> "readfail", code |-> c, body |-> EmptyDoc]
Answer(c, d) == [transport |-> "ok", code |-> c, body |-> d]

Ok == [err |-> FALSE, site |-> "ok", text |-> <<>>]
Failure(site, text) == [err |-> TRUE, site |-> site, text |-> text]

\* a faulty WriteToDoris that trusts the HTTP code alone
WriteToDorisNoStatusCheck(res) ==
    IF res.transport = "fail"
    THEN Failure("do", <<Lit("doris connect failed: "), Txt("cause")>>)
    ELSE IF res.transport = "readfail"
    THEN Failure("read", <<Lit("read body failed: "), Txt("cause")>>)
    ELSE IF res.code # StatusOK
    THEN Failure("status", <<Lit("doris returned ["), Dec(res.code),
                             Lit("]: "), Raw(res.body)>>)
    ELSE Ok

\* a faulty WriteToDoris that parses the body before it looks at the code
WriteToDorisParseFirst(res) ==
    LET r == Unmarshal(res.body, StreamLoadSchema, StreamLoadZero)
    IN  IF res.transport = "fail"
        THEN Failure("do", <<Lit("doris connect failed: "), Txt("cause")>>)
        ELSE IF res.transport = "readfail"
        THEN Failure("read", <<Lit("read body failed: "), Txt("cause")>>)
        ELSE IF r.err
        THEN Failure("parse", <<Lit("cannot parse doris response: "),
                                Raw(res.body)>>)
        ELSE IF res.code # StatusOK
        THEN Failure("status", <<Lit("doris returned ["), Dec(res.code),
                                 Lit("]: "), Raw(res.body)>>)
        ELSE IF r.obj.Status # "Success"
        THEN Failure("rejected",
                     <<Lit("doris stream load failed: Status="),
                       Txt(r.obj.Status), Lit(", Message="),
                       Txt(r.obj.Message), Lit(", ErrorURL="),
                       Txt(r.obj.ErrorURL)>>)
        ELSE Ok

\* a faulty WriteToDoris that looks at the code before it reads the body
WriteToDorisStatusFirst(res) ==
    IF res.transport = "fail"
    THEN Failure("do", <<Lit("doris connect failed: "), Txt("cause")>>)
    ELSE IF res.code # StatusOK
    THEN Failure("status", <<Lit("doris returned ["), Dec(res.code),
                             Lit("]: "), Raw(res.body)>>)
    ELSE IF res.transport = "readfail"
    THEN Failure("read", <<Lit("read body failed: "), Txt("cause")>>)
    ELSE LET r == Unmarshal(res.body, StreamLoadSchema, StreamLoadZero)
         IN  IF r.err
             THEN Failure("parse", <<Lit("cannot parse doris response: "),
                                     Raw(res.body)>>)
             ELSE IF r.obj.Status # "Success"
             THEN Failure("rejected",
                          <<Lit("doris stream load failed: Status="),
                            Txt(r.obj.Status), Lit(", Message="),
                            Txt(r.obj.Message), Lit(", ErrorURL="),
                            Txt(r.obj.ErrorURL)>>)
             ELSE Ok

\* DorisClient.WriteToDoris / writeToDoris after the request was sent: the
\* error it returns, by the return statement that produced it
WriteToDoris(res) ==
    IF res.transport = "fail"
    THEN Failure("do", <<Lit("doris connect failed: "), Txt("cause")>>)
    ELSE IF res.transport = "readfail"
    THEN Failure("read", <<Lit("read body failed: "), Txt("cause")>>)
    ELSE IF res.code # StatusOK
    THEN Failure("status", <<Lit("doris returned ["), Dec(res.code),
                             Lit("]: "), Raw(res.body)>>)
    ELSE LET r == Unmarshal(res.body, StreamLoadSchema, StreamLoadZero)
         IN  IF r.err
             THEN Failure("parse", <<Lit("cannot parse doris response: "),
                                     Raw(res.body)>>)
             ELSE IF r.obj.Status # "Success"
             THEN Failure("rejected",
                          <<Lit("doris stream load failed: Status="),
                            Txt(r.obj.Status), Lit(", Message="),
                            Txt(r.obj.Message), Lit(", ErrorURL="),
                            Txt(r.obj.ErrorURL)>>)
             ELSE Ok

(***************************************************************************)
(* Inbound requests and the configuration.                                 *)
(***************************************************************************)
User == "devops"
Passwd == "s3cret"
AllowedOrigin == "http://app.example"

\* base64(user:password), the value after "Basic " in the auth header
BasicAuth(u, p) == [tok |-> "b64", user |-> u, passwd |-> p]
\* DorisClient.init / writeToDoris: the Authorization header value
AuthHeader == <<Lit("Basic "), BasicAuth(User, Passwd)>>

Builds == {"nethttp", "gin"}
Configs ==
    [build : Builds, allowAll : BOOLEAN, allowCredentials : BOOLEAN]

VideoRequestSchema ==
    [project |-> "string", event |-> "string", userAgent |-> "string"]
VideoRequestZero == [project |-> "", event |-> "", userAgent |-> ""]

\* request bodies a caller can send
FullBody ==
    Obj("ok", << <<"project", Str("app1")>>, <<"event", Str("play")>>,
                 <<"userAgent", Str("UA")>> >>)
NoAgentBody ==
    Obj("ok", << <<"project", Str("app1")>>, <<"event", Str("play")>> >>)
EmptyProjectBody ==
    Obj("ok", << <<"project", Str("")>>, <<"event", Str("play")>> >>)
NoEventBody == Obj("ok", << <<"project", Str("app1")>> >>)
NumberProjectBody ==
    Obj("ok", << <<"project", Num>>, <<"event", Str("play")>> >>)
TrailingBody ==
    Obj("trailing", << <<"project", Str("app1")>>, <<"event", Str("play")>> >>)
ReqDocs ==
    {FullBody, NoAgentBody, EmptyProjectBody, NoEventBody, NumberProjectBody,
     TrailingBody, BadDoc, NullDoc}

Methods == {"POST", "GET", "OPTIONS"}
ContentTypes == {"application/json", "text/plain"}
Origins == {"", AllowedOrigin, "http://other.example"}

Inputs ==
    [method : {"POST"}, contentType : ContentTypes, origin : Origins,
     body : ReqDocs]
    \cup
    [method : Methods \ {"POST"}, contentType : ContentTypes,
     origin : Origins, body : {EmptyDoc}]
NoInput ==
    [method |-> "", contentType |-> "", origin |-> "", body |-> EmptyDoc]

(***************************************************************************)
(* The wall clock and time.Format.  A time is a record of its fields, a    *)
(* formatted time the sequence of its characters.                          *)
(***************************************************************************)
Times ==
    << [Y |-> 2026, M |-> 1, D |-> 2, h |-> 3, m |-> 4, s |-> 5],
       [Y |-> 2026, M |-> 11, D |-> 30, h |-> 23, m |-> 59, s |-> 58] >>

\* time.Now()
Now == Times[clock]

Digits == <<"0", "1", "2", "3", "4", "5", "6", "7", "8", "9">>
DigitChar(d) == Digits[d + 1]
Pad2(n) == <<DigitChar((n \div 10) % 10), DigitChar(n % 10)>>
Pad4(n) == Pad2(n \div 100) \o Pad2(n % 100)

\* the decimal digits of n without padding
Unpadded(n) ==
    IF n < 10 THEN <<DigitChar(n)>>
    ELSE IF n < 100 THEN Pad2(n)
    ELSE Pad4(n)

\* a faulty FormatTime whose layout is "2006-1-2 15:4:5"
FormatTimeUnpadded(t) ==
    Pad4(t.Y) \o <<"-">> \o Unpadded(t.M) \o <<"-">> \o Unpadded(t.D)
    \o <<" ">> \o Pad2(t.h) \o <<":">> \o Unpadded(t.m) \o <<":">>
    \o Unpadded(t.s)

\* t.Format("2006-01-02 15:04:05")
FormatTime(t) ==
    Pad4(t.Y) \o <<"-">> \o Pad2(t.M) \o <<"-">> \o Pad2(t.D) \o <<" ">>
    \o Pad2(t.h) \o <<":">> \o Pad2(t.m) \o <<":">> \o Pad2(t.s)

(***************************************************************************)
(* The CORS headers of a response: acao is the value of                    *)
(* Access-Control-Allow-Origin ("" when the header is absent), credentials *)
(* says whether Access-Control-Allow-Credentials: true is present, methods *)
(* whether Allow-Methods, Allow-Headers and Max-Age are.                   *)
(***************************************************************************)
NoHeaders == [acao |-> "", credentials |-> FALSE, methods |-> FALSE]

\* setCORSHeaders of the net/http build
setCORSHeaders(c, in) ==
    [acao |->
        IF c.allowCredentials
        THEN IF c.allowAll THEN in.origin
             ELSE IF in.origin = AllowedOrigin THEN AllowedOrigin ELSE ""
        ELSE IF c.allowAll THEN "*"
             ELSE IF in.origin = AllowedOrigin THEN AllowedOrigin ELSE "",
     credentials |-> c.allowCredentials,
     methods |-> TRUE]

\* the headers cors.New(corsConfig) puts on a request that carries an allowed
\* Origin: "*" in AllowOrigins makes the middleware allow all origins and
\* send the wildcard, with or without credentials
GinCorsHeaders(c, in) ==
    [acao |-> IF c.allowAll THEN "*" ELSE in.origin,
     credentials |-> c.allowCredentials,
     methods |-> in.method = "OPTIONS"]

(***************************************************************************)
(* What one layer of the pipeline decides: a response, or a load call.     *)
(* writes lists the statuses handed to the ResponseWriter on the way, in   *)
(* order; status is the one the caller receives, the first of them.        *)
(***************************************************************************)
Respond(by, status, text, req) ==
    [by |-> by, status |-> status, text |-> text, req |-> req,
     forward |-> FALSE, payload |-> EmptyDoc, faulted |-> FALSE,
     hdr |-> NoHeaders, writes |-> <<status>>]
Forward(req, payload) ==
    [by |-> "handler", status |-> 0, text |-> <<>>, req |-> req,
     forward |-> TRUE, payload |-> payload, faulted |-> FALSE,
     hdr |-> NoHeaders, writes |-> <<>>]

\* a panic that unwinds to net/http's connection loop: the connection is
\* closed and no status is written
PanicUnrecovered(b) ==
    [Respond("conn", 0, <<>>, VideoRequestZero)
     EXCEPT !.faulted = TRUE, !.writes = <<>>]

\* the deferred recover of videoHandler / gin.Recovery(): the panic becomes
\* a 500
Recover(b) ==
    [Respond("recover", 500,
             IF b = "nethttp" THEN <<Lit("Internal server error")>> ELSE <<>>,
             VideoRequestZero)
     EXCEPT !.faulted = TRUE]

\* json.Marshal(VideoData{...}) plus the newline: one JSON object; the gin
\* build stamps it with the formatted time of the handler
MarshalVideoData(b, req) ==
    Obj("ok",
        << <<"project", Str(req.project)>>, <<"event", Str(req.event)>>,
           <<"user_agent", Str(req.userAgent)>> >>
        \o (IF b = "gin"
            THEN << <<"event_time", Str(FormatTime(Now))>> >>
            ELSE <<>>))

\* a faulty RequiredFields that checks project only
RequiredFieldsProjectOnly(req) == req.project # ""

\* the required-field check: `binding:"required"` / req.Project == "" ||
\* req.Event == ""
RequiredFields(req) == req.project # "" /\ req.event # ""

\* the 400 of the handler: the net/http build has one text per check, the
\* gin build appends the binding error to one prefix
BadRequest(b, legacyText, req) ==
    Respond("handler", 400,
            IF b = "nethttp" THEN <<Lit(legacyText)>>
            ELSE <<Lit("Invalid request body: "), Txt("binding error")>>,
            req)

\* videoHandler / App.videoHandler up to the load call
Handler(b, in, fault) ==
    LET d == DecoderDecode(in.body, VideoRequestSchema, VideoRequestZero)
    IN  IF fault THEN Recover(b)
        ELSE IF d.err
        THEN BadRequest(b, "Invalid request body", VideoRequestZero)
        ELSE IF ~RequiredFields(d.obj)
        THEN BadRequest(b, "Missing required fields: project and event",
                        d.obj)
        ELSE Forward(d.obj, MarshalVideoData(b, d.obj))

\* validateRequest of the net/http build; it hands an OPTIONS request on
\* unchecked
validateRequest(in, fault) ==
    IF in.method = "OPTIONS" THEN Handler("nethttp", in, fault)
    ELSE IF in.method # "POST"
    THEN Respond("validate", 405, <<Lit("Method not allowed")>>,
                 VideoRequestZero)
    ELSE IF in.contentType # "application/json"
    THEN Respond("validate", 415, <<Lit("Invalid content type")>>,
                 VideoRequestZero)
    ELSE IF ~JsonValid(in.body)
    THEN Respond("validate", 400, <<Lit("Invalid JSON format")>>,
                 VideoRequestZero)
    ELSE Handler("nethttp", in, fault)

\* a faulty corsMiddleware that answers a preflight and runs on into the
\* next handler
corsMiddlewareFallsThrough(c, in, fault) ==
    LET next == validateRequest(in, fault)
    IN  IF in.method = "OPTIONS"
        THEN [Respond("cors", 204, <<>>, VideoRequestZero)
              EXCEPT !.hdr = setCORSHeaders(c, in),
                     !.writes = <<204>> \o next.writes]
        ELSE [next EXCEPT !.hdr = setCORSHeaders(c, in)]

\* corsMiddleware of the net/http build: the headers go on every response
corsMiddleware(c, in, fault) ==
    [(IF in.method = "OPTIONS"
      THEN Respond("cors", 204, <<>>, VideoRequestZero)
      ELSE validateRequest(in, fault))
     EXCEPT !.hdr = setCORSHeaders(c, in)]

\* the gin router: only POST /video is registered, and the engine leaves
\* HandleMethodNotAllowed off, so another method finds no route
GinRoute(in, fault) ==
    IF in.method = "POST" THEN Handler("gin", in, fault)
    ELSE Respond("router", 404, <<Lit("404 page not found")>>,
                 VideoRequestZero)

\* a faulty GinCors that hands a preflight on to the router
GinCorsPreflightToRouter(c, in, fault) ==
    IF in.origin = "" THEN GinRoute(in, fault)
    ELSE IF ~(c.allowAll \/ in.origin = AllowedOrigin)
    THEN Respond("cors", 403, <<>>, VideoRequestZero)
    ELSE [GinRoute(in, fault) EXCEPT !.hdr = GinCorsHeaders(c, in)]

\* cors.New(corsConfig): a request without Origin passes untouched, an
\* origin outside the allow-list is refused, a preflight is answered here
GinCors(c, in, fault) ==
    IF in.origin = "" THEN GinRoute(in, fault)
    ELSE IF ~(c.allowAll \/ in.origin = AllowedOrigin)
    THEN Respond("cors", 403, <<>>, VideoRequestZero)
    ELSE [(IF in.method = "OPTIONS"
           THEN Respond("cors", 204, <<>>, VideoRequestZero)
           ELSE GinRoute(in, fault))
          EXCEPT !.hdr = GinCorsHeaders(c, in)]

\* the chain a request to /video runs through, up to a response or the
\* load call
Pipeline(c, in, fault) ==
    IF c.build = "nethttp" THEN corsMiddleware(c, in, fault)
    ELSE GinCors(c, in, fault)

\* the handler of /health: 200 and a fixed JSON body, whatever the method
healthHandler(in) ==
    Respond("health", 200, <<Lit("{status: ok, service: doris-webhook}")>>,
            VideoRequestZero)

\* the chain a request to /health runs through.  The net/http build wraps
\* the handler in corsMiddleware alone; the gin build runs its CORS layer
\* and routes GET to the handler, any other method finding no route
HealthPipeline(c, in) ==
    IF c.build = "nethttp"
    THEN [(IF in.method = "OPTIONS"
           THEN Respond("cors", 204, <<>>, VideoRequestZero)
           ELSE healthHandler(in))
          EXCEPT !.hdr = setCORSHeaders(c, in)]
    ELSE LET routed ==
                 IF in.method = "GET" THEN healthHandler(in)
                 ELSE Respond("router", 404, <<Lit("404 page not found")>>,
                              VideoRequestZero)
         IN  IF in.origin = "" THEN routed
             ELSE IF ~(c.allowAll \/ in.origin = AllowedOrigin)
             THEN Respond("cors", 403, <<>>, VideoRequestZero)
             ELSE [(IF in.method = "OPTIONS"
                    THEN Respond("cors", 204, <<>>, VideoRequestZero)
                    ELSE routed)
                   EXCEPT !.hdr = GinCorsHeaders(c, in)]

\* a faulty OnLoadResult that reports a rejected load as a success
OnLoadResultIgnoreRejected(b, err) ==
    IF err.err /\ err.site # "rejected"
    THEN [status |-> 502,
          text |-> <<Lit("Doris connection failed: ")>> \o err.text]
    ELSE [status |-> IF b = "nethttp" THEN 202 ELSE 200,
          text |-> <<Lit("Data processed successfully.")>>]

\* the handler after WriteToDoris returned
OnLoadResult(b, err) ==
    IF err.err
    THEN [status |-> 502,
          text |-> <<Lit("Doris connection failed: ")>> \o err.text]
    ELSE [status |-> IF b = "nethttp" THEN 202 ELSE 200,
          text |-> <<Lit("Data processed successfully.")>>]

\* a faulty RetryAfter that tries a failed load once more
RetryOnce(err, calls) == err.err /\ calls < 2

\* whether the handler issues another load call after this one returned:
\* it returns right after the first result
RetryAfter(err, calls) == FALSE

\* a faulty NewLabel that derives the label from the payload
NewLabelFromPayload(n, payload) == 100 + Len(payload.fields)

\* uuid.New().String(): the n-th identifier drawn from the generator
NewLabel(n, payload) == n + 1

(***************************************************************************)
(* The environment of the process and loadConfig.  An address is a record  *)
(* of its scheme prefix and the rest, so that strings.HasPrefix and the    *)
(* prepending of "http://" are operations on it.                           *)
(***************************************************************************)
Addr(scheme, rest) == [scheme |-> scheme, rest |-> rest]
NoAddr == Addr("", "")
HasPrefix(a, p) == a.scheme = p

Envs ==
    [beHTTP : {NoAddr, Addr("", "be:8040"), Addr("https://", "be:8040")},
     passwd : {"", Passwd}]
GoodEnv == [beHTTP |-> Addr("http://", "be:8040"), passwd |-> Passwd]

NoConf == [BEHTTP |-> NoAddr, User |-> "", Passwd |-> ""]

\* a faulty loadConfig that accepts an empty DORIS_PASSWORD
loadConfigNoPasswordCheck(env) ==
    IF env.beHTTP = NoAddr THEN [err |-> TRUE, conf |-> NoConf]
    ELSE [err |-> FALSE,
          conf |-> [BEHTTP |->
                        IF ~HasPrefix(env.beHTTP, "http://")
                           /\ ~HasPrefix(env.beHTTP, "https://")
                        THEN [env.beHTTP EXCEPT !.scheme = "http://"]
                        ELSE env.beHTTP,
                    User |-> User, Passwd |-> env.passwd]]

\* loadConfig: DORIS_BE_HTTP and DORIS_PASSWORD must be set
loadConfig(env) ==
    IF env.beHTTP = NoAddr THEN [err |-> TRUE, conf |-> NoConf]
    ELSE IF env.passwd = "" THEN [err |-> TRUE, conf |-> NoConf]
    ELSE [err |-> FALSE,
          conf |-> [BEHTTP |->
                        IF ~HasPrefix(env.beHTTP, "http://")
                           /\ ~HasPrefix(env.beHTTP, "https://")
                        THEN [env.beHTTP EXCEPT !.scheme = "http://"]
                        ELSE env.beHTTP,
                    User |-> User, Passwd |-> env.passwd]]

(***************************************************************************)
(* The process.  phase: "init" (main has not loaded the configuration),    *)
(* "serving", "signalled" (the signal is in the quit channel, the listener *)
(* is still open), "draining" (srv.Shutdown closed the listener and waits  *)
(* for the requests in flight), "exited".  code is the exit code, dropped  *)
(* the requests still open at the exit, client whether the load client was *)
(* created.                                                                *)
(***************************************************************************)
Starting(env) ==
    [phase |-> "init", code |-> 0, env |-> env, conf |-> NoConf,
     client |-> FALSE, signalled |-> FALSE, dropped |-> 0]
Serving ==
    [Starting(GoodEnv) EXCEPT !.phase = "serving",
                              !.conf = loadConfig(GoodEnv).conf,
                              !.client = TRUE]

\* the listener accepts connections
ListeningWhileDraining(p) == p.phase \in {"serving", "signalled", "draining"}
Listening(p) == p.phase \in {"serving", "signalled"}
\* the goroutines of the process run
Running(p) == p.phase \in {"serving", "signalled", "draining"}

\* a faulty ExitCode that reports every shutdown as clean
ExitCodeZero(err) == 0
\* the end of main: os.Exit(1) when Shutdown returned an error, a plain
\* return otherwise
ExitCode(err) == IF err THEN 1 ELSE 0

\* what SIGINT/SIGTERM do to a Go process that has no handler for them
KilledBySignal == 143

maxRedirects == 10
defaultTimeout == 30

\* a faulty TimeoutArmed: a client without a deadline
TimeoutNever(d) == FALSE
\* http.Client.Timeout: a positive value bounds the whole call, the wait
\* for a pooled connection included
TimeoutArmed(d) == d > 0

\* CheckRedirect: the error for a redirect after len(via) requests
CheckRedirect(lenVia) == lenVia >= maxRedirects

\* whether cancelling the inbound request aborts the outbound call: the gin
\* build sends it with the request's context (http.NewRequestWithContext),
\* the net/http build without one (http.NewRequest)
CtxAborts(b, cancelled) == b = "gin" /\ cancelled

(***************************************************************************)
(* State.  slots: the requests whose load call is in flight.  last: the    *)
(* latest thing the pipeline did for a request: "responded" (a response    *)
(* without a load call), "forwarded" (the load call was issued) or         *)
(* "completed" (the response after the load call).  sent: the label header *)
(* of every outbound call so far.  uuids: identifiers drawn so far.        *)
(***************************************************************************)
Idle ==
    [busy |-> FALSE, in |-> NoInput, payload |-> EmptyDoc, label |-> 0,
     calls |-> 0, conn |-> FALSE, cancelled |-> FALSE]

NoEvent ==
    [ev |-> "none", in |-> NoInput, by |-> "", req |-> VideoRequestZero,
     payload |-> EmptyDoc, result |-> TransportFail,
     err |-> Ok, status |-> 0, text |-> <<>>, calls |-> 0, faulted |-> FALSE,
     hdr |-> NoHeaders, cancelled |-> FALSE, path |-> "/video",
     writes |-> <<>>]

Responded(in, o) ==
    [NoEvent EXCEPT !.ev = "responded", !.in = in, !.by = o.by,
                    !.req = o.req, !.status = o.status, !.text = o.text,
                    !.faulted = o.faulted, !.hdr = o.hdr,
                    !.writes = o.writes]

Forwarded(in, o) ==
    [NoEvent EXCEPT !.ev = "forwarded", !.in = in, !.by = o.by,
                    !.req = o.req, !.payload = o.payload, !.calls = 1,
                    !.hdr = o.hdr, !.writes = o.writes]

Completed(slot, res, err, resp) ==
    [NoEvent EXCEPT !.ev = "completed", !.in = slot.in, !.by = "handler",
                    !.payload = slot.payload, !.result = res, !.err = err,
                    !.status = resp.status, !.text = resp.text,
                    !.calls = slot.calls,
                    !.hdr = Pipeline(cfg, slot.in, FALSE).hdr,
                    !.cancelled = slot.cancelled,
                    !.writes = Pipeline(cfg, slot.in, FALSE).writes
                               \o <<resp.status>>]

\* what the load engine and the network can answer in the pipeline
SuccessDoc == Obj("ok", << <<"Status", Str("Success")>> >>)
FailDoc ==
    Obj("ok", << <<"Status", Str("Fail")>>,
                 <<"Message", Str("too many filtered rows")>> >>)
Codes == {200, 204, 500}
EngineResults ==
    {TransportFail, ReadFail(200)}
    \cup {Answer(c, d) : c \in {200, 500},
                         d \in {SuccessDoc, FailDoc, BadDoc, Obj("ok", <<>>)}}

InFlight == {s \in 1..MaxInFlight : slots[s].busy}
ConnsInUse == {s \in InFlight : slots[s].conn}

FreeSlot == CHOOSE s \in 1..MaxInFlight :
                /\ ~slots[s].busy
                /\ \A t \in 1..MaxInFlight : ~slots[t].busy => s <= t

\* a request is handled up to its response, no load call being made
ReceiveRespond(in, fault) ==
    LET o == Pipeline(cfg, in, fault)
    IN  /\ Listening(proc)
        /\ ~o.forward
        /\ fault = o.faulted
        /\ o.faulted => panics < MaxPanics
        /\ last' = Responded(in, o)
        /\ panics' = IF o.faulted THEN panics + 1 ELSE panics
        /\ UNCHANGED <<envVars, slots, uuids, sent, clVars, rd>>

\* a request to /health is answered
ReceiveHealth(in) ==
    /\ Listening(proc)
    /\ last' = [Responded(in, HealthPipeline(cfg, in))
                EXCEPT !.path = "/health"]
    /\ UNCHANGED <<envVars, slots, uuids, sent, panics, clVars, rd>>

\* a request is handled up to the load call: the record is serialized, a
\* label is drawn and the PUT is handed to the client, which sends it on a
\* connection of the pool or waits for one
ReceiveForward(in) ==
    LET o == Pipeline(cfg, in, FALSE)
        label == NewLabel(uuids, o.payload)
    IN  /\ Listening(proc)
        /\ o.forward
        /\ \E s \in 1..MaxInFlight : ~slots[s].busy
        /\ Len(sent) < MaxCalls
        /\ slots' = [slots EXCEPT ![FreeSlot] =
                        [busy |-> TRUE, in |-> in, payload |-> o.payload,
                         label |-> label, calls |-> 1,
                         conn |-> Cardinality(ConnsInUse) < PoolSize,
                         cancelled |-> FALSE]]
        /\ sent' = Append(sent, label)
        /\ uuids' = uuids + 1
        /\ last' = Forwarded(in, o)
        /\ UNCHANGED <<envVars, panics, clVars, rd>>

\* a call that waited for a connection of the pool gets one
AcquireConn(s) ==
    /\ Running(proc)
    /\ slots[s].busy
    /\ ~slots[s].conn
    /\ Cardinality(ConnsInUse) < PoolSize
    /\ slots' = [slots EXCEPT ![s].conn = TRUE]
    /\ UNCHANGED <<envVars, last, uuids, sent, panics, clVars, rd>>

\* the caller of the request of slot s goes away while the load call is in
\* flight: the context of the inbound request is cancelled
ClientCancel(s) ==
    /\ Running(proc)
    /\ slots[s].busy
    /\ ~slots[s].cancelled
    /\ slots' = [slots EXCEPT ![s].cancelled = TRUE]
    /\ UNCHANGED <<envVars, last, uuids, sent, panics, clVars, rd>>

\* the load call of slot s returns and the handler writes its response.  An
\* answer needs a connection; a call whose context was cancelled returns an
\* error of Do or of the body read
LoadReturn(s, res) ==
    LET slot == slots[s]
        err == WriteToDoris(res)
        label == NewLabel(uuids, slot.payload)
    IN  /\ Running(proc)
        /\ slot.busy
        /\ res.transport # "fail" => slot.conn
        /\ CtxAborts(cfg.build, slot.cancelled) => res.transport # "ok"
        /\ IF RetryAfter(err, slot.calls)
           THEN /\ Len(sent) < MaxCalls
                /\ slots' = [slots EXCEPT ![s].calls = @ + 1,
                                          ![s].label = label]
                /\ sent' = Append(sent, label)
                /\ uuids' = uuids + 1
                /\ UNCHANGED last
           ELSE /\ slots' = [slots EXCEPT ![s] = Idle]
                /\ last' = Completed(slot, res, err,
                                     OnLoadResult(cfg.build, err))
                /\ UNCHANGED <<sent, uuids>>
        /\ UNCHANGED <<envVars, panics, clVars, rd>>

\* the deadline of the client passes before the call of slot s is over: Do
\* returns an error
ClientTimeout(s) ==
    /\ TimeoutArmed(defaultTimeout)
    /\ LoadReturn(s, TransportFail)

\* the handler panics while its load call is in flight
LoadPanic(s) ==
    LET slot == slots[s]
        o == Recover(cfg.build)
    IN  /\ Running(proc)
        /\ slot.busy
        /\ panics < MaxPanics
        /\ slots' = [slots EXCEPT ![s] = Idle]
        /\ last' = [Completed(slot, TransportFail, Ok, o)
                    EXCEPT !.by = o.by, !.faulted = TRUE,
                           !.writes = o.writes]
        /\ panics' = panics + 1
        /\ UNCHANGED <<envVars, uuids, sent, clVars, rd>>

\* the wall clock advances
Tick ==
    /\ clock < Len(Times)
    /\ clock' = clock + 1
    /\ UNCHANGED <<cfg, proc, slots, last, uuids, sent, panics, clVars, rd>>

\* the requests the concurrent server is driven with: two valid ones (sent
\* any number of times), one with a missing field and one with a wrong method
ServerInputs ==
    {[method |-> "POST", contentType |-> "application/json", origin |-> "",
      body |-> b] : b \in {FullBody, NoAgentBody, EmptyProjectBody}}
    \cup {[method |-> "GET", contentType |-> "application/json",
           origin |-> "", body |-> EmptyDoc]}

\* CORS_ALLOWED_ORIGIN and CORS_ALLOW_CREDENTIALS left at their defaults
DefaultConfigs ==
    {c \in Configs : c.allowAll /\ ~c.allowCredentials}

\* no redirect chain is being followed
RdIdle == [chain |-> 0, final |-> 0, via |-> 0, outcome |-> "idle"]

Init ==
    /\ cfg \in DefaultConfigs
    /\ proc = Serving
    /\ clock = 1
    /\ slots = [s \in 1..MaxInFlight |-> Idle]
    /\ last = NoEvent
    /\ uuids = 0
    /\ sent = <<>>
    /\ panics = 0
    /\ clIn = TransportFail
    /\ clOut = [done |-> FALSE, r |-> Ok]
    /\ rd = RdIdle

Next ==
    \/ \E in \in ServerInputs, fault \in BOOLEAN : ReceiveRespond(in, fault)
    \/ \E in \in ServerInputs : ReceiveForward(in)
    \/ \E s \in 1..MaxInFlight : AcquireConn(s)
    \/ \E s \in 1..MaxInFlight, res \in EngineResults : LoadReturn(s, res)
    \/ \E s \in 1..MaxInFlight : LoadPanic(s)

\* the server under any number of concurrent requests
Spec == Init /\ [][Next]_vars

(***************************************************************************)
(* One request end to end, over every input and configuration: the         *)
(* pipeline as a function of the request and of the engine's answer.       *)
(***************************************************************************)
InitRequest ==
    /\ cfg \in Configs
    /\ proc = Serving
    /\ clock = 1
    /\ slots = [s \in 1..MaxInFlight |-> Idle]
    /\ last = NoEvent
    /\ uuids = 0
    /\ sent = <<>>
    /\ panics = 0
    /\ clIn = TransportFail
    /\ clOut = [done |-> FALSE, r |-> Ok]
    /\ rd = RdIdle

NextRequest ==
    \/ /\ last = NoEvent
       /\ Tick
    \/ /\ last = NoEvent
       /\ \E in \in Inputs, fault \in BOOLEAN : ReceiveRespond(in, fault)
    \/ /\ last = NoEvent
       /\ \E in \in Inputs : ReceiveForward(in)
    \/ \E s \in 1..MaxInFlight : ClientCancel(s)
    \/ \E s \in 1..MaxInFlight, res \in EngineResults : LoadReturn(s, res)
    \/ \E s \in 1..MaxInFlight : LoadPanic(s)

SpecRequest == InitRequest /\ [][NextRequest]_vars

\* one request to either route, /video or /health
NextRoutes ==
    \/ /\ last = NoEvent
       /\ Tick
    \/ /\ last = NoEvent
       /\ \E in \in Inputs, fault \in BOOLEAN : ReceiveRespond(in, fault)
    \/ /\ last = NoEvent
       /\ \E in \in Inputs : ReceiveForward(in)
    \/ /\ last = NoEvent
       /\ \E in \in Inputs : ReceiveHealth(in)
    \/ \E s \in 1..MaxInFlight : ClientCancel(s)
    \/ \E s \in 1..MaxInFlight, res \in EngineResults : LoadReturn(s, res)
    \/ \E s \in 1..MaxInFlight : LoadPanic(s)

SpecRoutes == InitRequest /\ [][NextRoutes]_vars

(***************************************************************************)
(* The classification of one load call on its own: every answer of the     *)
(* engine within the bounds is classified once.                            *)
(***************************************************************************)
Keys == {"Status", "status", "Message", "TxnId"}
Vals == {Str("Success"), Str("Fail"), Num, Null}
Members == {<<k, v>> : k \in Keys, v \in Vals}
SeqsUpTo(S, n) == UNION {[1..k -> S] : k \in 0..n}
AllDocs ==
    {NullDoc, ArrayDoc, BadDoc}
    \cup {Obj(syn, fs) : syn \in {"ok", "trailing"},
                         fs \in SeqsUpTo(Members, MaxFields)}
AllResults ==
    {TransportFail} \cup {ReadFail(c) : c \in Codes}
    \cup {Answer(c, d) : c \in Codes, d \in AllDocs}

Classify ==
    /\ ~clOut.done
    /\ clOut' = [done |-> TRUE, r |-> WriteToDoris(clIn)]
    /\ UNCHANGED <<envVars, slots, last, uuids, sent, panics, clIn, rd>>

InitClassify ==
    /\ cfg = [build |-> "gin", allowAll |-> TRUE, allowCredentials |-> FALSE]
    /\ proc = Serving
    /\ clock = 1
    /\ slots = [s \in 1..MaxInFlight |-> Idle]
    /\ last = NoEvent
    /\ uuids = 0
    /\ sent = <<>>
    /\ panics = 0
    /\ clIn \in AllResults
    /\ clOut = [done |-> FALSE, r |-> Ok]
    /\ rd = RdIdle

NextClassify == Classify

SpecClassify == InitClassify /\ [][NextClassify]_vars

(***************************************************************************)
(* The redirect chain of one load call: the engine answers the first       *)
(* rd.chain requests with a redirect and the next one with rd.final.       *)
(* rd.via counts the requests sent so far.                                 *)
(***************************************************************************)
\* the client sends the next request of the chain and looks at its answer:
\* the final response ends the call; a redirect is put to CheckRedirect with
\* the requests sent so far, and an error of it ends the call
FollowRedirect ==
    LET n == rd.via + 1
    IN  /\ rd.outcome = "running"
        /\ rd' = [rd EXCEPT !.via = n,
                            !.outcome =
                                IF n > rd.chain THEN "response"
                                ELSE IF CheckRedirect(n) THEN "error"
                                ELSE "running"]
        /\ UNCHANGED <<envVars, slots, last, uuids, sent, panics, clVars>>

InitRedirect ==
    /\ cfg \in DefaultConfigs
    /\ proc = Serving
    /\ clock = 1
    /\ slots = [s \in 1..MaxInFlight |-> Idle]
    /\ last = NoEvent
    /\ uuids = 0
    /\ sent = <<>>
    /\ panics = 0
    /\ clIn = TransportFail
    /\ clOut = [done |-> FALSE, r |-> Ok]
    /\ rd \in [chain : 0..MaxChain, final : {200, 500}, via : {0},
               outcome : {"running"}]

NextRedirect == FollowRedirect

SpecRedirect == InitRedirect /\ [][NextRedirect]_vars

(***************************************************************************)
(* The life of the process: start, serving, signal and shutdown.           *)
(***************************************************************************)
\* main up to the server's start: a configuration error ends the process
\* with code 1 before the load client is created
Boot ==
    LET r == loadConfig(proc.env)
    IN  /\ proc.phase = "init"
        /\ proc' = IF r.err
                   THEN [proc EXCEPT !.phase = "exited", !.code = 1]
                   ELSE [proc EXCEPT !.phase = "serving", !.conf = r.conf,
                                     !.client = TRUE]
        /\ UNCHANGED <<cfg, clock, slots, last, uuids, sent, panics, clVars,
                       rd>>

\* SIGINT or SIGTERM arrives.  The gin build has registered the quit
\* channel; the net/http build has no handler and the signal ends it
Signal ==
    /\ proc.phase = "serving"
    /\ proc' = IF cfg.build = "gin"
               THEN [proc EXCEPT !.phase = "signalled", !.signalled = TRUE]
               ELSE [proc EXCEPT !.phase = "exited", !.signalled = TRUE,
                                 !.code = KilledBySignal,
                                 !.dropped = Cardinality(InFlight)]
    /\ UNCHANGED <<cfg, clock, slots, last, uuids, sent, panics, clVars, rd>>

\* main reads the quit channel and calls srv.Shutdown, which closes the
\* listener and returns at once when no request is in flight
BeginShutdown ==
    /\ proc.phase = "signalled"
    /\ proc' = IF InFlight = {}
               THEN [proc EXCEPT !.phase = "exited",
                                 !.code = ExitCode(FALSE)]
               ELSE [proc EXCEPT !.phase = "draining"]
    /\ UNCHANGED <<cfg, clock, slots, last, uuids, sent, panics, clVars, rd>>

\* a poll of srv.Shutdown finds no request in flight: Shutdown returns nil
\* and main returns
ShutdownPoll ==
    /\ proc.phase = "draining"
    /\ InFlight = {}
    /\ proc' = [proc EXCEPT !.phase = "exited", !.code = ExitCode(FALSE)]
    /\ UNCHANGED <<cfg, clock, slots, last, uuids, sent, panics, clVars, rd>>

\* the context of srv.Shutdown expires while it waits: Shutdown returns the
\* context's error and main exits, whatever is in flight
GraceExpire ==
    /\ proc.phase = "draining"
    /\ proc' = [proc EXCEPT !.phase = "exited", !.code = ExitCode(TRUE),
                            !.dropped = Cardinality(InFlight)]
    /\ UNCHANGED <<cfg, clock, slots, last, uuids, sent, panics, clVars, rd>>

\* the requests and answers the process is driven with over its life
LifeInputs ==
    {[method |-> "POST", contentType |-> "application/json", origin |-> "",
      body |-> FullBody],
     [method |-> "GET", contentType |-> "application/json", origin |-> "",
      body |-> EmptyDoc]}
LifeResults == {Answer(200, SuccessDoc), Answer(500, BadDoc)}

InitLife ==
    /\ cfg \in DefaultConfigs
    /\ proc \in {Starting(env) : env \in Envs}
    /\ clock = 1
    /\ slots = [s \in 1..MaxInFlight |-> Idle]
    /\ last = NoEvent
    /\ uuids = 0
    /\ sent = <<>>
    /\ panics = 0
    /\ clIn = TransportFail
    /\ clOut = [done |-> FALSE, r |-> Ok]
    /\ rd = RdIdle

NextLife ==
    \/ Boot
    \/ \E in \in LifeInputs : ReceiveRespond(in, FALSE)
    \/ \E in \in LifeInputs : ReceiveForward(in)
    \/ \E s \in 1..MaxInFlight : AcquireConn(s)
    \/ \E s \in 1..MaxInFlight, res \in LifeResults : LoadReturn(s, res)
    \/ \E s \in 1..MaxInFlight : ClientTimeout(s)
    \/ Signal
    \/ BeginShutdown
    \/ ShutdownPoll
    \/ GraceExpire

\* main runs on once the signal is in the channel, the timer of the
\* shutdown context fires, and so does the deadline of every load call;
\* nothing makes the engine answer
FairLife ==
    /\ WF_vars(Boot)
    /\ WF_vars(BeginShutdown)
    /\ WF_vars(GraceExpire)
    /\ \A s \in 1..MaxInFlight : WF_vars(ClientTimeout(s))

SpecLife == InitLife /\ [][NextLife]_vars /\ FairLife

(***************************************************************************)
(* Claims.                                                                 *)
(***************************************************************************)
Contains(text, tok) == \E i \in DOMAIN text : text[i] = tok

ParsesAsSuccess(doc) ==
    LET p == Unmarshal(doc, StreamLoadSchema, StreamLoadZero)
    IN  ~p.err /\ p.obj.Status = "Success"

\* C1: a load call returns nil exactly when the HTTP code is 200 and the
\* Status field parsed from the body is "Success"; 200 with another Status,
\* and a code other than 200 with a body whose Status is "Success", are errors.
C1_SuccessIffOkAndStatusSuccess ==
    clOut.done =>
        (~clOut.r.err <=>
            /\ clIn.transport = "ok"
            /\ clIn.code = 200
            /\ ParsesAsSuccess(clIn.body))

C1_Witness ==
    /\ clOut.done
    /\ clOut.r.err
    /\ clIn.transport = "ok"
    /\ clIn.code = 500
    /\ ParsesAsSuccess(clIn.body)

Class(site) ==
    CASE site \in {"do", "read"} -> "TransportError"
      [] site = "status" -> "GatewayError"
      [] site = "parse" -> "ProtocolError"
      [] site = "rejected" -> "LoadRejected"
      [] site = "ok" -> "Success"

ExpectedClass(res) ==
    LET p == Unmarshal(res.body, StreamLoadSchema, StreamLoadZero)
    IN  IF res.transport # "ok" THEN "TransportError"
        ELSE IF res.code # 200 THEN "GatewayError"
        ELSE IF p.err THEN "ProtocolError"
        ELSE IF p.obj.Status # "Success" THEN "LoadRejected"
        ELSE "Success"

\* C2: the outcome of a load call is exactly one of TransportError,
\* GatewayError (with code and body), ProtocolError, LoadRejected (with
\* status, message and error URL) and success, decided in that precedence
\* from the transport result, the HTTP code and the body.
C2_FiveClassesByPrecedence ==
    clOut.done =>
        LET r == clOut.r
            p == Unmarshal(clIn.body, StreamLoadSchema, StreamLoadZero)
        IN  /\ Class(r.site) = ExpectedClass(clIn)
            /\ r.err <=> Class(r.site) # "Success"
            /\ Class(r.site) = "GatewayError" =>
                   /\ Contains(r.text, Dec(clIn.code))
                   /\ Contains(r.text, Raw(clIn.body))
            /\ Class(r.site) = "LoadRejected" =>
                   /\ Contains(r.text, Txt(p.obj.Status))
                   /\ Contains(r.text, Txt(p.obj.Message))
                   /\ Contains(r.text, Txt(p.obj.ErrorURL))

C2_Witness ==
    /\ clOut.done
    /\ clIn.code = 500
    /\ clIn.transport = "ok"
    /\ clIn.body.syntax = "trailing"
    /\ Class(clOut.r.site) = "GatewayError"

\* C3: for every inbound request the load client is called at most once:
\* after a failed call no second call is issued for that request and the
\* failure is answered at once.
C3_SingleAttempt ==
    /\ \A s \in InFlight : slots[s].calls = 1
    /\ last.calls <= 1
    /\ last.ev = "responded" => last.calls = 0
    /\ (last.ev = "completed" /\ last.err.err) =>
           /\ last.calls = 1
           /\ last.status = 502
    /\ Len(sent) = uuids

C3_Witness ==
    /\ last.ev = "completed"
    /\ last.err.err
    /\ last.calls = 1
    /\ Len(sent) >= 2

\* the body of a request decodes to a VideoRequest whose project or event is
\* empty (the member may be absent)
EmptyRequiredField(in) ==
    LET d == DecoderDecode(in.body, VideoRequestSchema, VideoRequestZero)
    IN  ~d.err /\ (d.obj.project = "" \/ d.obj.event = "")

\* C4: a POST /video whose decoded project or event is empty never reaches
\* the load client, and the handler answers it with 400.
C4_EmptyFieldsRejected ==
    /\ \A s \in InFlight : ~EmptyRequiredField(slots[s].in)
    /\ (last.ev # "none" /\ last.in.method = "POST"
            /\ EmptyRequiredField(last.in)) =>
           /\ last.ev = "responded"
           /\ last.calls = 0
           /\ last.status \notin {200, 202}
           /\ last.by = "handler" => last.status = 400

C4_Witness ==
    /\ last.ev = "responded"
    /\ last.in.method = "POST"
    /\ last.in.body = NoEventBody
    /\ last.by = "handler"
    /\ last.status = 400
    /\ sent = <<>>

\* C5 as claimed: a POST /video whose Content-Type is not application/json
\* is answered 415, one with that content type and a malformed JSON body is
\* answered 400, and neither reaches the load client.
C5_ContentTypeAndSyntaxRejected ==
    (last.ev # "none" /\ last.in.method = "POST" /\ ~last.faulted) =>
        /\ last.in.contentType # "application/json" =>
               /\ last.status = 415
               /\ last.ev = "responded"
        /\ (last.in.contentType = "application/json"
                /\ ~JsonValid(last.in.body)) =>
               /\ last.status = 400
               /\ last.ev = "responded"

\* C6 as claimed: a request to /video whose method is neither POST nor
\* OPTIONS is answered 405 before the load client is touched.
C6_OtherMethodsGet405 ==
    (last.ev # "none" /\ last.in.method \notin {"POST", "OPTIONS"}) =>
        /\ last.status = 405
        /\ last.ev = "responded"
        /\ last.calls = 0

\* C7: the status of a validated POST /video follows the outcome of the load
\* call alone: 502 for every failure, 200 or 202 with the confirmation body
\* for a success.
C7_StatusFollowsLoadOutcome ==
    (last.ev = "completed" /\ ~last.faulted) =>
        LET failed == WriteToDoris(last.result).err
        IN  /\ failed => last.status = 502
            /\ ~failed =>
                   /\ last.status \in {200, 202}
                   /\ last.text = <<Lit("Data processed successfully.")>>
            /\ last.status \in {200, 202, 502}

C7_Witness ==
    /\ last.ev = "completed"
    /\ last.result.transport = "ok"
    /\ last.result.code = 200
    /\ last.result.body = FailDoc
    /\ last.status = 502

\* C8: no two outbound load calls carry the same label, whatever their
\* payloads and however they interleave.
C8_LabelsUnique ==
    /\ \A i, j \in DOMAIN sent : i # j => sent[i] # sent[j]
    /\ \A s, t \in InFlight : s # t => slots[s].label # slots[t].label

C8_Witness ==
    \E s, t \in InFlight :
        /\ s # t
        /\ slots[s].payload = slots[t].payload
        /\ slots[s].label # slots[t].label
        /\ Len(sent) = MaxCalls

\* C9 as claimed: the response of POST /video holds neither the credentials
\* nor the raw response body of the load engine.
C9_NoEngineDetailInResponse ==
    \A i \in DOMAIN last.text :
        /\ last.text[i].tok # "raw"
        /\ last.text[i] # BasicAuth(User, Passwd)
        /\ last.text[i].tok \in {"lit", "txt"} => last.text[i].s # Passwd

\* C10: a request whose handling panics is answered 500, and the server
\* goes on accepting requests after any number of panics.
C10_PanicBecomes500 ==
    /\ last.faulted => (last.status = 500 /\ last.by = "recover")
    /\ \A in \in ServerInputs :
           (InFlight # 1..MaxInFlight /\ Len(sent) < MaxCalls) =>
               ENABLED (ReceiveRespond(in, FALSE) \/ ReceiveForward(in))

C10_Witness ==
    /\ panics = MaxPanics
    /\ last.ev = "completed"
    /\ ~last.faulted
    /\ last.status \in {200, 202}

\* the CORS layer accepts the origin of the request: the net/http build
\* looks at no origin before it answers a preflight, cors.New wants an Origin
\* header that the allow-list holds
OriginAccepted(c, in) ==
    \/ c.build = "nethttp"
    \/ /\ in.origin # ""
       /\ c.allowAll \/ in.origin = AllowedOrigin

C12_NoWildcardWithCredentials ==
    (last.ev # "none" /\ cfg.allowCredentials) => last.hdr.acao # "*"

C14_NoAcceptAfterShutdownBegan ==
    [][proc.phase \in {"draining", "exited"} =>
           /\ sent' = sent
           /\ uuids' = uuids
           /\ last' # last => last'.ev = "completed"
           /\ \A s \in 1..MaxInFlight : slots'[s].busy => slots[s].busy]_vars

C14_Witness ==
    /\ proc.phase = "draining"
    /\ InFlight = {}
    /\ last.ev = "completed"
    /\ last.status = 200

\* C15 as claimed: a load call whose inbound request was cancelled while it
\* was in flight is aborted: it returns a transport error, whatever the
\* engine would have answered.
C15_CancelAbortsLoadCall ==
    (last.ev = "completed" /\ last.cancelled /\ ~last.faulted) =>
        /\ last.err.err
        /\ Class(last.err.site) = "TransportError"

\* C16 as claimed: a load call follows a chain of at most 10 consecutive
\* redirects to the final response, and a longer chain makes it fail with an
\* error.
C16_TenRedirectsFollowed ==
    rd.outcome \in {"response", "error"} =>
        /\ rd.chain <= maxRedirects => rd.outcome = "response"
        /\ rd.chain > maxRedirects => rd.outcome = "error"

\* C17: the server listens only after loadConfig succeeded: with an empty
\* DORIS_BE_HTTP or DORIS_PASSWORD the process exits with code 1 without
\* having created the load client or served a request, and a process that
\* serves has a client, a password and an address with a scheme.
C17_NoServingWithoutConfig ==
    /\ proc.phase = "init" =>
           /\ ~proc.client
           /\ last = NoEvent
           /\ sent = <<>>
    /\ (proc.phase # "init"
            /\ (proc.env.beHTTP = NoAddr \/ proc.env.passwd = "")) =>
           /\ proc.phase = "exited"
           /\ proc.code = 1
           /\ ~proc.client
           /\ ~proc.signalled
           /\ last = NoEvent
           /\ sent = <<>>
    /\ (proc.client \/ last # NoEvent \/ Listening(proc)) =>
           /\ proc.client
           /\ proc.conf.Passwd # ""
           /\ proc.conf.BEHTTP.scheme \in {"http://", "https://"}
           /\ proc.conf.BEHTTP.rest = proc.env.beHTTP.rest

C17_Witness ==
    /\ proc.phase = "exited"
    /\ proc.code = 1
    /\ proc.env.beHTTP # NoAddr
    /\ proc.env.passwd = ""
    /\ ~proc.client

\* the members of an object by name: whether there is one, and the value of
\* the last one ("" when there is none, as for a field left at its zero)
HasMember(doc, k) == \E i \in DOMAIN doc.fields : doc.fields[i][1] = k
MemberOf(doc, k) ==
    IF HasMember(doc, k)
    THEN LET i == CHOOSE j \in DOMAIN doc.fields :
                      /\ doc.fields[j][1] = k
                      /\ \A l \in DOMAIN doc.fields :
                             doc.fields[l][1] = k => l <= j
         IN  doc.fields[i][2].v
    ELSE ""

\* a text of the form YYYY-MM-DD HH:MM:SS
WellFormedTime(ts) ==
    /\ Len(ts) = 19
    /\ ts[5] = "-" /\ ts[8] = "-" /\ ts[11] = " "
    /\ ts[14] = ":" /\ ts[17] = ":"
    /\ \A i \in (1..19) \ {5, 8, 11, 14, 17} :
           \E d \in DOMAIN Digits : ts[i] = Digits[d]

\* the record of a forwarded request holds the project, the event and the
\* user agent of the request, and is one JSON object sent in one call
RecordMirrorsRequest(e) ==
    /\ e.payload.kind = "object"
    /\ e.payload.syntax = "ok"
    /\ e.calls = 1
    /\ MemberOf(e.payload, "project") = MemberOf(e.in.body, "project")
    /\ MemberOf(e.payload, "event") = MemberOf(e.in.body, "event")
    /\ MemberOf(e.payload, "user_agent") = MemberOf(e.in.body, "userAgent")
    /\ MemberOf(e.payload, "project") # ""
    /\ MemberOf(e.payload, "event") # ""

C19_BodyReadBeforeStatus ==
    clOut.done =>
        /\ clIn.transport = "readfail" => clOut.r.site = "read"
        /\ clOut.r.site \in {"status", "parse", "rejected", "ok"} =>
               clIn.transport = "ok"
        /\ clOut.r.site = "status" =>
               /\ clIn.code # 200
               /\ Contains(clOut.r.text, Dec(clIn.code))
               /\ Contains(clOut.r.text, Raw(clIn.body))

C19_Witness ==
    /\ clOut.done
    /\ clIn = ReadFail(500)
    /\ clOut.r.err
    /\ clOut.r.site = "read"

C21_ExactlyOneStatus ==
    /\ last.ev \in {"responded", "completed"} =>
           /\ Len(last.writes) = 1
           /\ last.writes[1] = last.status
           /\ last.status \in {200, 202, 204, 400, 403, 404, 405, 415, 500,
                               502}
    /\ last.ev = "forwarded" => last.writes = <<>>
    /\ \A s \in InFlight :
           Pipeline(cfg, slots[s].in, FALSE).writes = <<>>

C21_Witness ==
    /\ last.ev = "completed"
    /\ last.faulted
    /\ last.path = "/video"
    /\ last.by = "recover"
    /\ last.writes = <<500>>

\* the status of the first rule a request to /video violates, in the order
\* method, Content-Type, JSON syntax, required fields; 0 when it violates none
FirstViolation(in) ==
    LET d == DecoderDecode(in.body, VideoRequestSchema, VideoRequestZero)
    IN  IF in.method # "POST" THEN 405
        ELSE IF in.contentType # "application/json" THEN 415
        ELSE IF ~JsonValid(in.body) THEN 400
        ELSE IF d.err \/ ~RequiredFields(d.obj) THEN 400
        ELSE 0

\* C22 as claimed: a request to /video that the CORS layer lets through is
\* checked for its method, its Content-Type, its JSON syntax and its required
\* fields in that order, and is answered with the status of the first rule it
\* violates; malformed JSON never reaches the required-field check.
C22_FirstViolatedRuleAnswers ==
    (last.ev # "none" /\ last.path = "/video" /\ ~last.faulted
        /\ last.in.method # "OPTIONS" /\ OriginAccepted(cfg, last.in)) =>
        /\ FirstViolation(last.in) # 0 =>
               /\ last.ev = "responded"
               /\ last.status = FirstViolation(last.in)
        /\ FirstViolation(last.in) = 0 => last.ev # "responded"
        /\ (last.in.method = "POST"
                /\ last.in.contentType = "application/json"
                /\ ~JsonValid(last.in.body)) =>
               ~Contains(last.text,
                         Lit("Missing required fields: project and event"))

====
